---- MODULE Spec2Model ----
(***************************************************************************)
(* SignAura web/app.js: the landmark callbacks, the feature extractor, the *)
(* rolling-window smoother, the hysteresis classifier mapToText, the       *)
(* transcript it records, and saveDataset with the corpus it stores.       *)
(*                                                                         *)
(* Numbers.  JavaScript computes on doubles; the model computes on         *)
(* integers in fixed point.  Landmark coordinates are in thousandths of    *)
(* the normalised image (0.4 is 400).  Every feature value, every angle    *)
(* and every threshold is in millionths (0.02 is 20000, 10 degrees is      *)
(* 10000000), so the 1e-6 that extractFeatures adds to the inter-ocular    *)
(* distance is exactly 1.  Times are milliseconds, as Date.now() gives.    *)
(***************************************************************************)
EXTENDS Integers, Sequences, FiniteSets, TLC

VARIABLES
    lastFace,           \* let lastFace: the latest face landmark set, or Null
    lastPose,           \* let lastPose: the latest pose landmark set, or Null
    featureHistory,     \* const featureHistory: the smoothing buffer
    detectionState,     \* const detectionState: the eleven hysteresis flags
    transcript,         \* const transcript: entries [timestamp, text]
    lastDetection,      \* let lastDetection
    lastDetectionTime,  \* let lastDetectionTime
    now,                \* the wall clock Date.now() reads, in ms
    featuresPre,        \* what drawResults last showed in #features
    nmfText,            \* what drawResults last showed in #nmfText
    uncaught,           \* the error the last handler ended with, or Null
    labelInput,         \* the text in the #labelInput field
    dataset,            \* localStorage 'isl-nmf-dataset' ("" when not set)
    alertText,          \* the message of the last alert(), "" before any
    transcriptLog,      \* what #transcriptLog shows of the transcript
    loops               \* the calls of loop() under way, in order of start

vars == <<lastFace, lastPose, featureHistory, detectionState, transcript,
          lastDetection, lastDetectionTime, now, featuresPre, nmfText,
          uncaught, labelInput, dataset, alertText, transcriptLog, loops>>

\* JavaScript's null (an absent landmark set, an absent feature vector).
Null == [null |-> TRUE]

\* What a handler becomes when a property of undefined is read.
TypeError == [error |-> "TypeError"]

---------------------------------------------------------------------------
(* Fixed-point arithmetic *)

\* One, in the fixed-point unit of the feature values.
Micro == 1000 * 1000

Abs(a) == IF a < 0 THEN -a ELSE a

Sign(a) == IF a < 0 THEN -1 ELSE 1

\* The largest r in lo..hi with r*r <= n.
RECURSIVE SqrtIter(_, _, _)
SqrtIter(n, lo, hi) ==
    IF lo >= hi THEN lo
    ELSE LET mid == (lo + hi + 1) \div 2
         IN  IF mid * mid <= n THEN SqrtIter(n, mid, hi)
                               ELSE SqrtIter(n, lo, mid - 1)

ISqrt(n) == SqrtIter(n, 0, 46340)

RECURSIVE Pow10(_)
Pow10(k) == IF k = 0 THEN 1 ELSE 10 * Pow10(k - 1)

\* k further decimal digits of r / b, for 0 <= r < b.
RECURSIVE FracDigits(_, _, _)
FracDigits(r, b, k) ==
    IF k = 0 THEN 0
    ELSE LET r10 == r * 10
         IN  (r10 \div b) * Pow10(k - 1) + FracDigits(r10 % b, b, k - 1)

\* a / b for b > 0, both in millionths, the quotient in millionths
\* (rounded toward zero): long division, so that no product overflows.
FDiv(a, b) ==
    Sign(a) * ((Abs(a) \div b) * Micro + FracDigits(Abs(a) % b, b, 6))

\* a / n for a whole number n > 0 (rounded toward zero).
IDiv(a, n) == Sign(a) * (Abs(a) \div n)

---------------------------------------------------------------------------
(* Geometry *)

\* function dist(a,b) { return Math.hypot(a.x-b.x, a.y-b.y); }
\* Points are in thousandths, the distance is in millionths (the root is
\* taken at a resolution of 1e-4).
dist(a, b) ==
    LET dx == a.x - b.x
        dy == a.y - b.y
    IN  ISqrt(100 * (dx * dx + dy * dy)) * 100

\* tan(k degrees) in millionths, k = 0..45 (TanTable[k + 1]).
TanTable ==
    << 0, 17455, 34921, 52408, 69927, 87489, 105104, 122785, 140541, 158384,
       176327, 194380, 212557, 230868, 249328, 267949, 286745, 305731, 324920,
       344328, 363970, 383864, 404026, 424475, 445229, 466308, 487733, 509525,
       531709, 554309, 577350, 600861, 624869, 649408, 674509, 700208, 726543,
       753554, 781286, 809784, 839100, 869287, 900404, 932515, 965689, 1000000 >>

\* atan(t) in millionths of a degree for a slope 0 <= t <= 1 in millionths:
\* the whole degree from the table, the rest by linear interpolation.
AtanDeg(t) ==
    IF t >= Micro THEN 45 * Micro
    ELSE LET k == CHOOSE j \in 0..44 : TanTable[j + 1] <= t /\ t < TanTable[j + 2]
         IN  k * Micro + FDiv(t - TanTable[k + 1], TanTable[k + 2] - TanTable[k + 1])

\* Math.atan2(dy, dx) * 180 / Math.PI, in millionths of a degree.
Atan2Deg(dy, dx) ==
    IF dx = 0 /\ dy = 0 THEN 0
    ELSE LET ax   == Abs(dx)
             ay   == Abs(dy)
             base == IF ay <= ax THEN AtanDeg(FDiv(ay * 1000, ax * 1000))
                     ELSE 90 * Micro - AtanDeg(FDiv(ax * 1000, ay * 1000))
             s    == IF dy < 0 THEN -1 ELSE 1
         IN  IF dx >= 0 THEN s * base ELSE s * (180 * Micro - base)

---------------------------------------------------------------------------
(* Landmark sets.  A set is [length, lm]: lm maps the indices that hold a  *)
(* landmark to points [x, y].                                              *)

Has(set, i) == i \in DOMAIN set.lm

\* The indices extractFeatures reads without a guard.
FaceAnchors == {1, 13, 14, 33, 61, 70, 105, 145, 152, 159, 263, 291, 300, 386}

Pt(px, py) == [x |-> px, y |-> py]

\* interOcular with a guard of 1e-3 in place of 1e-6.
interOcularWideGuard(lm) == dist(lm[33], lm[263]) + 1000

\* const interOcular = dist(faceLandmarks[33], faceLandmarks[263]) + 1e-6;
interOcular(lm) == dist(lm[33], lm[263]) + 1

\* extractFeatures(faceLandmarks, poseLandmarks)
extractFeatures(faceLandmarks, poseLandmarks) ==
    IF faceLandmarks = Null \/ faceLandmarks.length = 0 THEN Null
    ELSE IF \E i \in FaceAnchors : ~Has(faceLandmarks, i) THEN TypeError
    ELSE IF /\ poseLandmarks # Null
            /\ poseLandmarks.length > 0
            /\ (~Has(poseLandmarks, 11) \/ ~Has(poseLandmarks, 12)) THEN TypeError
    ELSE
    LET lm             == faceLandmarks.lm
        leftEyeTop     == lm[105]
        leftEyeBottom  == lm[159]
        rightEyeTop    == lm[386]
        rightEyeBottom == lm[145]
        leftBrow       == lm[70]
        rightBrow      == lm[300]
        noseTip        == lm[1]
        chin           == lm[152]
        upperLip       == lm[13]
        lowerLip       == lm[14]
        eyeOpenness    == (dist(leftEyeTop, leftEyeBottom)
                           + dist(rightEyeTop, rightEyeBottom)) \div 2
        eyeRatio       == FDiv(eyeOpenness, interOcular(lm))
        \* eye centres and brows: y in millionths
        leftEyeCenterY  == ((leftEyeTop.y + leftEyeBottom.y) * 1000) \div 2
        rightEyeCenterY == ((rightEyeTop.y + rightEyeBottom.y) * 1000) \div 2
        leftBrowY      == leftBrow.y * 1000
        rightBrowY     == rightBrow.y * 1000
        browEyeDist    == IDiv((leftEyeCenterY - leftBrowY)
                               + (rightEyeCenterY - rightBrowY), 2)
        browRatio      == FDiv(browEyeDist, interOcular(lm))
        mouthOpen      == FDiv(dist(upperLip, lowerLip), interOcular(lm))
        leftEye        == lm[33]
        rightEye       == lm[263]
        dx             == rightEye.x - leftEye.x
        dy             == rightEye.y - leftEye.y
        roll           == Atan2Deg(dy, dx)
        nod            == (chin.y - noseTip.y) * 1000
        torsoLean      ==
            IF poseLandmarks # Null /\ poseLandmarks.length > 0
            THEN LET leftShoulder  == poseLandmarks.lm[11]
                     rightShoulder == poseLandmarks.lm[12]
                     shoulderY == ((leftShoulder.y + rightShoulder.y) * 1000) \div 2
                     midHip == IF Has(poseLandmarks, 23) /\ Has(poseLandmarks, 24)
                               THEN ((poseLandmarks.lm[23].y
                                      + poseLandmarks.lm[24].y) * 1000) \div 2
                               ELSE 0
                 IN  \* if (midHip): null and 0 are both falsy
                     IF midHip # 0 THEN shoulderY - midHip ELSE 0
            ELSE 0
        leftBrowDist   == dist(leftBrow, leftEyeTop)
        rightBrowDist  == dist(rightBrow, rightEyeTop)
        browAsymmetry  == FDiv(Abs(leftBrowDist - rightBrowDist), interOcular(lm))
        mouthCornerLeft  == lm[61]
        mouthCornerRight == lm[291]
        mouthWidth     == FDiv(dist(mouthCornerLeft, mouthCornerRight), interOcular(lm))
        smileMetric    == mouthWidth
        leftIris       == IF Has(faceLandmarks, 468) THEN lm[468] ELSE leftEye
        rightIris      == IF Has(faceLandmarks, 473) THEN lm[473] ELSE rightEye
        gazeLeft       == ((leftIris.x - leftEye.x) + (rightIris.x - rightEye.x)) * 1000
        gazeMetric     == FDiv(gazeLeft, interOcular(lm))
    IN  [eyeRatio |-> eyeRatio, browRatio |-> browRatio, mouthOpen |-> mouthOpen,
         roll |-> roll, nod |-> nod, torsoLean |-> torsoLean,
         browAsymmetry |-> browAsymmetry, smileMetric |-> smileMetric,
         gazeMetric |-> gazeMetric]

---------------------------------------------------------------------------
(* Temporal smoothing *)

\* const SMOOTHING_WINDOW = 5
SMOOTHING_WINDOW == 5

FeatureNames == {"eyeRatio", "browRatio", "mouthOpen", "roll", "nod",
                 "torsoLean", "browAsymmetry", "smileMetric", "gazeMetric"}

RECURSIVE SumField(_, _)
SumField(hist, name) ==
    IF hist = <<>> THEN 0 ELSE Head(hist)[name] + SumField(Tail(hist), name)

\* featureHistory.push(rawFeatures); if (length > SMOOTHING_WINDOW) shift()
pushHistory(hist, rawFeatures) ==
    LET pushed == Append(hist, rawFeatures)
    IN  IF Len(pushed) > SMOOTHING_WINDOW THEN Tail(pushed) ELSE pushed

\* avgFeatures dividing by the window size instead of the buffer length.
avgFeaturesByWindow(hist) ==
    [name \in FeatureNames |-> IDiv(SumField(hist, name), SMOOTHING_WINDOW)]

\* The field-wise average smoothFeatures returns over a non-empty buffer.
avgFeatures(hist) ==
    [name \in FeatureNames |-> IDiv(SumField(hist, name), Len(hist))]

\* smoothFeatures emptying the buffer when the vector is absent.
smoothFeaturesClearOnAbsent(hist, rawFeatures) ==
    IF rawFeatures = Null THEN [history |-> <<>>, result |-> Null]
    ELSE LET h == pushHistory(hist, rawFeatures)
         IN  [history |-> h, result |-> avgFeatures(h)]

\* smoothFeatures answering an absent vector with the mean of the buffer.
smoothFeaturesMeanOnAbsent(hist, rawFeatures) ==
    IF rawFeatures = Null
    THEN [history |-> hist,
          result |-> IF hist = <<>> THEN Null ELSE avgFeatures(hist)]
    ELSE LET h == pushHistory(hist, rawFeatures)
         IN  [history |-> h, result |-> avgFeatures(h)]

\* smoothFeatures(rawFeatures): the buffer afterwards and the value returned.
smoothFeatures(hist, rawFeatures) ==
    IF rawFeatures = Null THEN [history |-> hist, result |-> Null]
    ELSE LET h == pushHistory(hist, rawFeatures)
         IN  [history |-> h, result |-> avgFeatures(h)]

---------------------------------------------------------------------------
(* The hysteresis classifier.  Thresholds are in millionths.               *)

EyesClosedEnter  == 20000      \* f.eyeRatio < 0.02
EyesClosedExit   == 30000      \* f.eyeRatio > 0.03
MouthOpenEnter   == 80000      \* f.mouthOpen > 0.08
MouthOpenExit    == 60000      \* f.mouthOpen < 0.06
BrowsRaisedEnter == 120000     \* f.browRatio > 0.12
BrowsRaisedExit  == 100000     \* f.browRatio < 0.10
TiltRightEnter   == 10000000   \* f.roll > 10
TiltRightExit    == 8000000    \* f.roll < 8
TiltLeftEnter    == -10000000  \* f.roll < -10
TiltLeftExit     == -8000000   \* f.roll > -8
HeadNodEnter     == 20000      \* f.nod > 0.02
HeadNodExit      == 10000      \* f.nod < 0.01
BodyLeanEnter    == 80000      \* Math.abs(f.torsoLean) > 0.08
BodyLeanExit     == 50000      \* Math.abs(f.torsoLean) < 0.05
BrowFurrowEnter  == 60000      \* f.browAsymmetry > 0.06
BrowFurrowExit   == 40000      \* f.browAsymmetry < 0.04
SmilingEnter     == 300000     \* f.smileMetric > 0.30
SmilingExit      == 280000     \* f.smileMetric < 0.28
GazeLeftEnter    == -20000     \* f.gazeMetric < -0.02
GazeLeftExit     == -10000     \* f.gazeMetric > -0.01
GazeRightEnter   == 20000      \* f.gazeMetric > 0.02
GazeRightExit    == 10000      \* f.gazeMetric < 0.01

\* now - lastDetectionTime > 500
DwellMs == 500

\* if (transcript.length > 50) transcript.shift()
MaxTranscript == 50

Labels == {"eyesClosed", "mouthOpen", "browsRaised", "headTiltRight",
           "headTiltLeft", "headNod", "bodyLean", "browFurrow", "smiling",
           "gazingLeft", "gazingRight"}

\* const detectionState = { eyesClosed: false, ... }
InitialDetectionState == [l \in Labels |-> FALSE]

\* Each block of mapToText takes and returns [ds, texts]: the flags and the
\* descriptions pushed so far.

EyesClosedBlock(acc, f) ==
    LET ds == IF ~acc.ds.eyesClosed /\ f.eyeRatio < EyesClosedEnter
              THEN [acc.ds EXCEPT !.eyesClosed = TRUE]
              ELSE IF acc.ds.eyesClosed /\ f.eyeRatio > EyesClosedExit
              THEN [acc.ds EXCEPT !.eyesClosed = FALSE]
              ELSE acc.ds
    IN  [ds |-> ds,
         texts |-> IF ds.eyesClosed THEN Append(acc.texts, "eyes closed/blink")
                   ELSE acc.texts]

MouthOpenBlock(acc, f) ==
    LET ds == IF ~acc.ds.mouthOpen /\ f.mouthOpen > MouthOpenEnter
              THEN [acc.ds EXCEPT !.mouthOpen = TRUE]
              ELSE IF acc.ds.mouthOpen /\ f.mouthOpen < MouthOpenExit
              THEN [acc.ds EXCEPT !.mouthOpen = FALSE]
              ELSE acc.ds
    IN  [ds |-> ds,
         texts |-> IF ds.mouthOpen
                   THEN Append(acc.texts, "mouth open (maybe surprise/talking)")
                   ELSE acc.texts]

BrowsRaisedBlock(acc, f) ==
    LET ds == IF ~acc.ds.browsRaised /\ f.browRatio > BrowsRaisedEnter
              THEN [acc.ds EXCEPT !.browsRaised = TRUE]
              ELSE IF acc.ds.browsRaised /\ f.browRatio < BrowsRaisedExit
              THEN [acc.ds EXCEPT !.browsRaised = FALSE]
              ELSE acc.ds
    IN  [ds |-> ds,
         texts |-> IF ds.browsRaised
                   THEN Append(acc.texts, "eyebrows raised (surprise/ask)")
                   ELSE acc.texts]

HeadTiltRightBlock(acc, f) ==
    LET ds == IF ~acc.ds.headTiltRight /\ f.roll > TiltRightEnter
              THEN [acc.ds EXCEPT !.headTiltRight = TRUE, !.headTiltLeft = FALSE]
              ELSE IF acc.ds.headTiltRight /\ f.roll < TiltRightExit
              THEN [acc.ds EXCEPT !.headTiltRight = FALSE]
              ELSE acc.ds
    IN  [ds |-> ds,
         texts |-> IF ds.headTiltRight THEN Append(acc.texts, "head tilted right")
                   ELSE acc.texts]

\* HeadTiltLeftBlock with the sign of its enter threshold lost (roll < 10).
HeadTiltLeftBlockSignSlip(acc, f) ==
    LET ds == IF ~acc.ds.headTiltLeft /\ f.roll < -TiltLeftEnter
              THEN [acc.ds EXCEPT !.headTiltLeft = TRUE, !.headTiltRight = FALSE]
              ELSE IF acc.ds.headTiltLeft /\ f.roll > TiltLeftExit
              THEN [acc.ds EXCEPT !.headTiltLeft = FALSE]
              ELSE acc.ds
    IN  [ds |-> ds,
         texts |-> IF ds.headTiltLeft THEN Append(acc.texts, "head tilted left")
                   ELSE acc.texts]

HeadTiltLeftBlock(acc, f) ==
    LET ds == IF ~acc.ds.headTiltLeft /\ f.roll < TiltLeftEnter
              THEN [acc.ds EXCEPT !.headTiltLeft = TRUE, !.headTiltRight = FALSE]
              ELSE IF acc.ds.headTiltLeft /\ f.roll > TiltLeftExit
              THEN [acc.ds EXCEPT !.headTiltLeft = FALSE]
              ELSE acc.ds
    IN  [ds |-> ds,
         texts |-> IF ds.headTiltLeft THEN Append(acc.texts, "head tilted left")
                   ELSE acc.texts]

\* HeadNodBlock with the sign convention of the earlier extractor
\* (nod = noseTip.y - chin.y, ON below -0.02).
HeadNodBlockOldSign(acc, f) ==
    LET ds == IF ~acc.ds.headNod /\ f.nod < -HeadNodEnter
              THEN [acc.ds EXCEPT !.headNod = TRUE]
              ELSE IF acc.ds.headNod /\ f.nod > -HeadNodExit
              THEN [acc.ds EXCEPT !.headNod = FALSE]
              ELSE acc.ds
    IN  [ds |-> ds,
         texts |-> IF ds.headNod THEN Append(acc.texts, "head down / nod")
                   ELSE acc.texts]

HeadNodBlock(acc, f) ==
    LET ds == IF ~acc.ds.headNod /\ f.nod > HeadNodEnter
              THEN [acc.ds EXCEPT !.headNod = TRUE]
              ELSE IF acc.ds.headNod /\ f.nod < HeadNodExit
              THEN [acc.ds EXCEPT !.headNod = FALSE]
              ELSE acc.ds
    IN  [ds |-> ds,
         texts |-> IF ds.headNod THEN Append(acc.texts, "head down / nod")
                   ELSE acc.texts]

BodyLeanBlock(acc, f) ==
    LET ds == IF ~acc.ds.bodyLean /\ Abs(f.torsoLean) > BodyLeanEnter
              THEN [acc.ds EXCEPT !.bodyLean = TRUE]
              ELSE IF acc.ds.bodyLean /\ Abs(f.torsoLean) < BodyLeanExit
              THEN [acc.ds EXCEPT !.bodyLean = FALSE]
              ELSE acc.ds
    IN  [ds |-> ds,
         texts |-> IF ds.bodyLean THEN Append(acc.texts, "body leaning")
                   ELSE acc.texts]

BrowFurrowBlock(acc, f) ==
    LET ds == IF ~acc.ds.browFurrow /\ f.browAsymmetry > BrowFurrowEnter
              THEN [acc.ds EXCEPT !.browFurrow = TRUE]
              ELSE IF acc.ds.browFurrow /\ f.browAsymmetry < BrowFurrowExit
              THEN [acc.ds EXCEPT !.browFurrow = FALSE]
              ELSE acc.ds
    IN  [ds |-> ds,
         texts |-> IF ds.browFurrow THEN Append(acc.texts, "brow furrow (concern)")
                   ELSE acc.texts]

\* SmilingBlock with one threshold for both directions.
SmilingBlockOneThreshold(acc, f) ==
    LET ds == IF ~acc.ds.smiling /\ f.smileMetric > SmilingEnter
              THEN [acc.ds EXCEPT !.smiling = TRUE]
              ELSE IF acc.ds.smiling /\ f.smileMetric < SmilingEnter
              THEN [acc.ds EXCEPT !.smiling = FALSE]
              ELSE acc.ds
    IN  [ds |-> ds,
         texts |-> IF ds.smiling THEN Append(acc.texts, "smiling") ELSE acc.texts]

SmilingBlock(acc, f) ==
    LET ds == IF ~acc.ds.smiling /\ f.smileMetric > SmilingEnter
              THEN [acc.ds EXCEPT !.smiling = TRUE]
              ELSE IF acc.ds.smiling /\ f.smileMetric < SmilingExit
              THEN [acc.ds EXCEPT !.smiling = FALSE]
              ELSE acc.ds
    IN  [ds |-> ds,
         texts |-> IF ds.smiling THEN Append(acc.texts, "smiling") ELSE acc.texts]

GazingLeftBlock(acc, f) ==
    LET ds == IF ~acc.ds.gazingLeft /\ f.gazeMetric < GazeLeftEnter
              THEN [acc.ds EXCEPT !.gazingLeft = TRUE, !.gazingRight = FALSE]
              ELSE IF acc.ds.gazingLeft /\ f.gazeMetric > GazeLeftExit
              THEN [acc.ds EXCEPT !.gazingLeft = FALSE]
              ELSE acc.ds
    IN  [ds |-> ds,
         texts |-> IF ds.gazingLeft THEN Append(acc.texts, "looking left")
                   ELSE acc.texts]

GazingRightBlock(acc, f) ==
    LET ds == IF ~acc.ds.gazingRight /\ f.gazeMetric > GazeRightEnter
              THEN [acc.ds EXCEPT !.gazingRight = TRUE, !.gazingLeft = FALSE]
              ELSE IF acc.ds.gazingRight /\ f.gazeMetric < GazeRightExit
              THEN [acc.ds EXCEPT !.gazingRight = FALSE]
              ELSE acc.ds
    IN  [ds |-> ds,
         texts |-> IF ds.gazingRight THEN Append(acc.texts, "looking right")
                   ELSE acc.texts]

\* classify with the eyebrow block run before the mouth block.
classifyBrowsFirst(ds, f) ==
    LET a0  == [ds |-> ds, texts |-> <<>>]
        a1  == EyesClosedBlock(a0, f)
        a2  == BrowsRaisedBlock(a1, f)
        a3  == MouthOpenBlock(a2, f)
        a4  == HeadTiltRightBlock(a3, f)
        a5  == HeadTiltLeftBlock(a4, f)
        a6  == HeadNodBlock(a5, f)
        a7  == BodyLeanBlock(a6, f)
        a8  == BrowFurrowBlock(a7, f)
        a9  == SmilingBlock(a8, f)
        a10 == GazingLeftBlock(a9, f)
    IN  GazingRightBlock(a10, f)

\* The eleven blocks in the order mapToText runs them.
classify(ds, f) ==
    LET a0  == [ds |-> ds, texts |-> <<>>]
        a1  == EyesClosedBlock(a0, f)
        a2  == MouthOpenBlock(a1, f)
        a3  == BrowsRaisedBlock(a2, f)
        a4  == HeadTiltRightBlock(a3, f)
        a5  == HeadTiltLeftBlock(a4, f)
        a6  == HeadNodBlock(a5, f)
        a7  == BodyLeanBlock(a6, f)
        a8  == BrowFurrowBlock(a7, f)
        a9  == SmilingBlock(a8, f)
        a10 == GazingLeftBlock(a9, f)
    IN  GazingRightBlock(a10, f)

\* texts.join(", ")
RECURSIVE join(_)
join(texts) ==
    IF texts = <<>> THEN ""
    ELSE IF Len(texts) = 1 THEN texts[1]
    ELSE texts[1] \o ", " \o join(Tail(texts))

\* const result = texts.length ? texts.join(", ") : "neutral"
resultText(texts) == IF Len(texts) > 0 THEN join(texts) ELSE "neutral"

\* new Date().toLocaleTimeString(): the clock to the second.
toLocaleTimeString(clock) == clock \div 1000

\* shouldRecord with >= for > (an entry exactly 500 ms after the last one).
shouldRecordAtLeast(result, ld, ldt, clock) ==
    result # ld /\ (clock - ldt) >= DwellMs

\* shouldRecord without the dwell test.
shouldRecordNoDwell(result, ld, ldt, clock) ==
    result # ld

\* shouldRecord without the test for a changed text.
shouldRecordDwellOnly(result, ld, ldt, clock) ==
    (clock - ldt) > DwellMs

\* shouldRecord with a dwell ten times as long.
shouldRecordLongDwell(result, ld, ldt, clock) ==
    result # ld /\ (clock - ldt) > 10 * DwellMs

\* if (result !== lastDetection && (now - lastDetectionTime) > 500)
shouldRecord(result, ld, ldt, clock) ==
    result # ld /\ (clock - ldt) > DwellMs

\* pushTranscript without the shift.
pushTranscriptNoShift(tr, entry) == Append(tr, entry)

\* transcript.push({ timestamp, text: result });
\* if (transcript.length > 50) transcript.shift()
pushTranscript(tr, entry) ==
    LET pushed == Append(tr, entry)
    IN  IF Len(pushed) > MaxTranscript THEN Tail(pushed) ELSE pushed

\* mapToText(f) at wall-clock time clock, from the state (ds, tr, ld, ldt):
\* the value returned and the state it leaves.
mapToText(ds, tr, ld, ldt, f, clock) ==
    IF f = Null
    THEN [result |-> "", ds |-> ds, transcript |-> tr,
          lastDetection |-> ld, lastDetectionTime |-> ldt]
    ELSE LET timestamp == toLocaleTimeString(clock)
             c         == classify(ds, f)
             result    == resultText(c.texts)
         IN  IF shouldRecord(result, ld, ldt, clock)
             THEN [result |-> result, ds |-> c.ds,
                   transcript |-> pushTranscript(tr, [timestamp |-> timestamp,
                                                      text |-> result]),
                   lastDetection |-> result, lastDetectionTime |-> clock]
             ELSE [result |-> result, ds |-> c.ds, transcript |-> tr,
                   lastDetection |-> ld, lastDetectionTime |-> ldt]

---------------------------------------------------------------------------
(* The landmark source: what the two MediaPipe callbacks may deliver.      *)

\* A face landmark set (478 landmarks with refineLandmarks: true) from the
\* measures that matter to extractFeatures, in thousandths: the eyelid gap,
\* the lift of each brow above the upper lid, the lip gap, the drop of the
\* right eye corner below the left one, the drop of the chin below the nose
\* tip, the mouth width and the shift of both irises.
MakeFace(eyeGap, browL, browR, lipGap, tiltDy, nodDy, mouthW, irisDx) ==
    [length |-> 478,
     lm |-> (33  :> Pt(400, 400)            @@ 263 :> Pt(600, 400 + tiltDy)
          @@ 105 :> Pt(430, 390)            @@ 159 :> Pt(430, 390 + eyeGap)
          @@ 386 :> Pt(570, 390)            @@ 145 :> Pt(570, 390 + eyeGap)
          @@ 70  :> Pt(430, 390 - browL)    @@ 300 :> Pt(570, 390 - browR)
          @@ 1   :> Pt(500, 450)            @@ 152 :> Pt(500, 450 + nodDy)
          @@ 13  :> Pt(500, 500)            @@ 14  :> Pt(500, 500 + lipGap)
          @@ 61  :> Pt(500 - mouthW, 505)   @@ 291 :> Pt(500, 505)
          @@ 468 :> Pt(400 + irisDx, 400)
          @@ 473 :> Pt(600 + irisDx, 400 + tiltDy))]

\* Eyes shut, brows up and uneven, mouth open and wide, head down and tilted
\* to the right, gaze to the right.
FaceRight == MakeFace(2, 40, 20, 27, 60, 40, 80, 8)

\* Eyes open, brows level, mouth shut, head up and tilted to the left, gaze
\* to the left.
FaceLeft == MakeFace(10, 10, 10, 6, -60, 5, 50, -8)

\* A pose landmark set with shoulders (11, 12) and hips (23, 24), the
\* shoulder line leanDy above the hip line.
MakePose(leanDy) ==
    [length |-> 33,
     lm |-> (11 :> Pt(400, 400 - leanDy) @@ 12 :> Pt(600, 400 - leanDy)
          @@ 23 :> Pt(420, 400)          @@ 24 :> Pt(580, 400))]

PoseLean == MakePose(100)

\* The shoulder line below the hip line.
PoseBack == MakePose(-100)

\* res.multiFaceLandmarks[0], or nothing
FaceInputs == {Null, FaceRight, FaceLeft}

\* res.poseLandmarks, or nothing
PoseInputs == {Null, PoseLean}

\* A landmark set with every coordinate multiplied by k: the same subject
\* seen k times larger, scaled about the image origin.
ScaleSet(set, k) ==
    [length |-> set.length,
     lm |-> [i \in DOMAIN set.lm |-> Pt(k * set.lm[i].x, k * set.lm[i].y)]]

\* A face far from the camera, upright, in the corner of the image: the
\* outer eye corners 20 thousandths apart, the other measures as in MakeFace.
MakeFarFace(eyeGap, browL, browR, lipGap, nodDy, mouthW, irisDx) ==
    [length |-> 478,
     lm |-> (33  :> Pt(40, 40)             @@ 263 :> Pt(60, 40)
          @@ 105 :> Pt(43, 39)             @@ 159 :> Pt(43, 39 + eyeGap)
          @@ 386 :> Pt(57, 39)             @@ 145 :> Pt(57, 39 + eyeGap)
          @@ 70  :> Pt(43, 39 - browL)     @@ 300 :> Pt(57, 39 - browR)
          @@ 1   :> Pt(50, 45)             @@ 152 :> Pt(50, 45 + nodDy)
          @@ 13  :> Pt(50, 50)             @@ 14  :> Pt(50, 50 + lipGap)
          @@ 61  :> Pt(50 - mouthW, 51)    @@ 291 :> Pt(50, 51)
          @@ 468 :> Pt(40 + irisDx, 40)
          @@ 473 :> Pt(60 + irisDx, 40))]

\* Far away: eyes open, brows up, mouth shut and wide, the chin 0.005 below
\* the nose tip.
FaceFar == MakeFarFace(1, 2, 2, 1, 5, 8, 0)

\* Far away: eyes open, brows uneven, mouth open, gaze to the right, the
\* chin 0.001 below the nose tip.
FaceFarOpen == MakeFarFace(1, 3, 1, 2, 1, 5, 1)

ScaleBases == {FaceFar, FaceFarOpen}

\* The factors by which a far face is brought nearer.
Scales == {1, 2, 10}

\* The far faces at every scale.
ScaleInputs == {ScaleSet(S, k) : S \in ScaleBases, k \in Scales}

\* The first n landmarks of a set: an array of length n.
Truncate(set, n) ==
    [length |-> n,
     lm |-> [i \in {j \in DOMAIN set.lm : j < n} |-> set.lm[i]]]

\* FaceRight cut to 100 landmarks: the anchors from 105 on are missing.
FaceShort == Truncate(FaceRight, 100)

\* FaceRight cut to 400 landmarks: every anchor is there, the irises are not.
FaceTruncated == Truncate(FaceRight, 400)

\* Face sets of the wrong length.
MalformedFaces == {FaceShort, FaceTruncated}

\* Pose sets: an empty array, one cut before the hips, one with the left
\* shoulder missing, and one with both hips on the top edge of the image
\* (y = 0) and the shoulders below them.
PoseEmpty == [length |-> 0, lm |-> <<>>]

PoseNoHips == Truncate(PoseLean, 23)

PoseNoShoulder ==
    [length |-> 33,
     lm |-> (12 :> Pt(600, 300) @@ 23 :> Pt(420, 400) @@ 24 :> Pt(580, 400))]

PoseHipsAtTop ==
    [length |-> 33,
     lm |-> (11 :> Pt(400, 300) @@ 12 :> Pt(600, 300)
          @@ 23 :> Pt(420, 0)   @@ 24 :> Pt(580, 0))]

OddPoses == {PoseEmpty, PoseNoHips, PoseNoShoulder, PoseHipsAtTop}

\* Every landmark on one point.
FacePoint ==
    [length |-> 478,
     lm |-> [i \in FaceAnchors \cup {468, 473} |-> Pt(500, 500)]]

\* The two outer eye corners (and the irises) on one point, the lids shut,
\* the lips and the mouth corners together; the left brow 0.0014 from its
\* lid and the right brow 0.001 from its lid, one below and one above.
FaceCornersMet ==
    [length |-> 478,
     lm |-> (33  :> Pt(500, 400) @@ 263 :> Pt(500, 400)
          @@ 105 :> Pt(470, 390) @@ 159 :> Pt(470, 390)
          @@ 386 :> Pt(530, 390) @@ 145 :> Pt(530, 390)
          @@ 70  :> Pt(471, 391) @@ 300 :> Pt(530, 389)
          @@ 1   :> Pt(500, 450) @@ 152 :> Pt(500, 460)
          @@ 13  :> Pt(500, 500) @@ 14  :> Pt(500, 500)
          @@ 61  :> Pt(500, 505) @@ 291 :> Pt(500, 505)
          @@ 468 :> Pt(500, 400) @@ 473 :> Pt(500, 400))]

\* Brows lifted to 0.15 of the eye distance and lips parted by 0.10 of it,
\* everything else at rest.
FaceSurprise == MakeFace(10, 25, 25, 20, 0, 5, 50, 0)

\* Everything at rest.
FaceNeutral == MakeFace(10, 10, 10, 6, 0, 5, 50, 0)

\* The faces of the surprise scenario.
ScenarioFaces == {FaceSurprise, FaceNeutral}

\* Face sets whose inter-ocular distance is 0.
CoincidentFaces == {FacePoint, FaceCornersMet}

\* extractFeatures is a function of its two arguments alone: its values on
\* the landmark sets the source delivers.
extracted ==
    [face \in FaceInputs \cup ScaleInputs \cup MalformedFaces \cup CoincidentFaces
                \cup ScenarioFaces,
     pose \in PoseInputs \cup OddPoses \cup {PoseBack} |->
         extractFeatures(face, pose)]

\* The clock advances in steps of half the dwell threshold.
TickMs == DwellMs \div 2

\* The time that may pass before a callback runs.
Deltas == {TickMs, 3 * TickMs}

\* The model follows the clock for MaxTicks steps.
MaxTicks == 10

MaxNow == MaxTicks * TickMs

---------------------------------------------------------------------------
(* The state machine *)

\* What updateTranscriptDisplay() puts into #transcriptLog for the
\* transcript tr: the "No detections yet..." paragraph when it is empty,
\* else one entry per element, the most recent first.
updateTranscriptDisplay(tr) ==
    [placeholder |-> Len(tr) = 0,
     entries |-> [i \in 1..Len(tr) |-> tr[Len(tr) + 1 - i]]]

\* The page after its 'load' handler has run.
Init ==
    /\ lastFace = Null
    /\ lastPose = Null
    /\ featureHistory = <<>>
    /\ detectionState = InitialDetectionState
    /\ transcript = <<>>
    /\ lastDetection = ""
    /\ lastDetectionTime = 0
    /\ now = 0
    /\ featuresPre = Null
    /\ nmfText = ""
    /\ uncaught = Null
    /\ labelInput = ""
    /\ dataset = ""
    /\ alertText = ""
    /\ transcriptLog = updateTranscriptDisplay(<<>>)
    /\ loops = <<>>

\* The part both callbacks share, after lastFace / lastPose is assigned:
\*   const rawFeatures = extractFeatures(lastFace, lastPose);
\*   const smoothedFeatures = smoothFeatures(rawFeatures);
\*   drawResults(lastFace, lastPose, smoothedFeatures);
\* where drawResults shows the features and the text mapToText returns.
Pipeline(face, pose, clock) ==
    LET rawFeatures == extracted[face, pose]
    IN  IF rawFeatures = TypeError
        THEN /\ uncaught' = TypeError
             /\ UNCHANGED <<featureHistory, detectionState, transcript,
                            lastDetection, lastDetectionTime, featuresPre,
                            nmfText>>
        ELSE LET s == smoothFeatures(featureHistory, rawFeatures)
                 m == mapToText(detectionState, transcript, lastDetection,
                                lastDetectionTime, s.result, clock)
             IN  /\ uncaught' = Null
                 /\ featureHistory' = s.history
                 /\ featuresPre' = s.result
                 /\ detectionState' = m.ds
                 /\ transcript' = m.transcript
                 /\ lastDetection' = m.lastDetection
                 /\ lastDetectionTime' = m.lastDetectionTime
                 /\ nmfText' = m.result

\* The body of faceMesh.onResults((res) => { ... }), run d ms after the
\* previous event.
onFaceResults(res, d) ==
    /\ now + d <= MaxNow
    /\ now' = now + d
    /\ lastFace' = res
    /\ UNCHANGED <<lastPose, labelInput, dataset, alertText, transcriptLog>>
    /\ Pipeline(res, lastPose, now + d)

\* faceMesh.onResults delivering a result, whichever send it answers.
FaceResults(res, d) ==
    /\ onFaceResults(res, d)
    /\ UNCHANGED loops

\* pose.onResults only storing the pose and leaving the recomputation to the
\* next face callback.
PoseResultsStoreOnly(res, d) ==
    /\ now + d <= MaxNow
    /\ now' = now + d
    /\ lastPose' = res
    /\ UNCHANGED <<lastFace, featureHistory, detectionState, transcript,
                   lastDetection, lastDetectionTime, featuresPre, nmfText,
                   uncaught, labelInput, dataset, alertText, transcriptLog,
                   loops>>

\* The body of pose.onResults((res) => { ... }), run d ms after the previous
\* event.
onPoseResults(res, d) ==
    /\ now + d <= MaxNow
    /\ now' = now + d
    /\ lastPose' = res
    /\ UNCHANGED <<lastFace, labelInput, dataset, alertText, transcriptLog>>
    /\ Pipeline(lastFace, res, now + d)

\* pose.onResults delivering a result, whichever send it answers.
PoseResults(res, d) ==
    /\ onPoseResults(res, d)
    /\ UNCHANGED loops

\* clearTranscript(), the user answering the confirm() dialog with ok
ClearTranscript(ok) ==
    /\ IF Len(transcript) = 0 \/ ~ok
       THEN UNCHANGED <<transcript, lastDetection, transcriptLog>>
       ELSE /\ transcript' = <<>>
            /\ lastDetection' = ""
            /\ transcriptLog' = updateTranscriptDisplay(transcript')
    /\ uncaught' = Null
    /\ UNCHANGED <<lastFace, lastPose, featureHistory, detectionState,
                   lastDetectionTime, now, featuresPre, nmfText,
                   labelInput, dataset, alertText, loops>>

---------------------------------------------------------------------------
(* The dataset sink: saveDataset and the label field it reads.             *)

\* The decimal digit d as a string.
DigitChar(d) == SubSeq("0123456789", d + 1, d + 1)

\* A natural number in decimal.
RECURSIVE NatString(_)
NatString(n) ==
    IF n < 10 THEN DigitChar(n) ELSE NatString(n \div 10) \o DigitChar(n % 10)

\* The last k decimal digits of n.
RECURSIVE FixedDigits(_, _)
FixedDigits(n, k) ==
    IF k = 0 THEN "" ELSE FixedDigits(n \div 10, k - 1) \o DigitChar(n % 10)

\* Number.prototype.toFixed(digits) of a value in millionths: the sign, then
\* the magnitude rounded to that many decimals, half away from zero.
toFixed(x, digits) ==
    LET unit == Pow10(6 - digits)
        n    == (Abs(x) + unit \div 2) \div unit
    IN  (IF x < 0 THEN "-" ELSE "")
        \o NatString(n \div Pow10(digits)) \o "."
        \o FixedDigits(n % Pow10(digits), digits)

\* String.prototype.trim(), for the blanks a label field can hold.
RECURSIVE trim(_)
trim(str) ==
    IF Len(str) > 0 /\ SubSeq(str, 1, 1) = " "
    THEN trim(SubSeq(str, 2, Len(str)))
    ELSE IF Len(str) > 0 /\ SubSeq(str, Len(str), Len(str)) = " "
    THEN trim(SubSeq(str, 1, Len(str) - 1))
    ELSE str

\* str.split(sep).length for a separator of one character: one more than
\* the separators in str, counted half by half.
RECURSIVE splitLength(_, _)
splitLength(str, sep) ==
    IF Len(str) = 0 THEN 1
    ELSE IF Len(str) = 1 THEN (IF str = sep THEN 2 ELSE 1)
    ELSE LET half == Len(str) \div 2
         IN  splitLength(SubSeq(str, 1, half), sep)
             + splitLength(SubSeq(str, half + 1, Len(str)), sep) - 1

\* The header saveDataset writes before the first row.
DatasetHeader ==
    "label,eyeRatio,browRatio,mouthOpen,roll,nod,torsoLean,browAsymmetry,smileMetric,gazeMetric\n"

\* const row = [label, currentFeatures.eyeRatio.toFixed(4), ...].join(',')
datasetRow(label, currentFeatures) ==
    label
    \o "," \o toFixed(currentFeatures.eyeRatio, 4)
    \o "," \o toFixed(currentFeatures.browRatio, 4)
    \o "," \o toFixed(currentFeatures.mouthOpen, 4)
    \o "," \o toFixed(currentFeatures.roll, 2)
    \o "," \o toFixed(currentFeatures.nod, 4)
    \o "," \o toFixed(currentFeatures.torsoLean, 4)
    \o "," \o toFixed(currentFeatures.browAsymmetry, 4)
    \o "," \o toFixed(currentFeatures.smileMetric, 4)
    \o "," \o toFixed(currentFeatures.gazeMetric, 4)

\* The user typing text into #labelInput.
TypeLabel(text) ==
    /\ labelInput' = text
    /\ UNCHANGED <<lastFace, lastPose, featureHistory, detectionState,
                   transcript, lastDetection, lastDetectionTime, now,
                   featuresPre, nmfText, uncaught, dataset, alertText,
                   transcriptLog, loops>>

\* saveDataset writing the header before every row.
SaveDatasetHeaderEachTime ==
    LET label == trim(labelInput)
    IN  /\ IF label = ""
           THEN /\ alertText' = "Please enter a label first!"
                /\ UNCHANGED <<dataset, labelInput>>
           ELSE IF Len(featureHistory) = 0
           THEN /\ alertText' =
                     "No features detected yet! Please wait for camera to start."
                /\ UNCHANGED <<dataset, labelInput>>
           ELSE LET currentFeatures == featureHistory[Len(featureHistory)]
                    row   == datasetRow(label, currentFeatures)
                    saved == dataset \o DatasetHeader \o row \o "\n"
                    sampleCount == splitLength(saved, "\n") - 2
                IN  /\ dataset' = saved
                    /\ alertText' = "Sample saved! Total samples: "
                                        \o NatString(sampleCount)
                    /\ labelInput' = ""
        /\ uncaught' = Null
        /\ UNCHANGED <<lastFace, lastPose, featureHistory, detectionState,
                       transcript, lastDetection, lastDetectionTime, now,
                       featuresPre, nmfText, transcriptLog, loops>>

\* saveDataset writing a row of zeros when the buffer is empty.
SaveDatasetZeros ==
    LET label == trim(labelInput)
        zeros == [name \in FeatureNames |-> 0]
    IN  /\ IF label = ""
           THEN /\ alertText' = "Please enter a label first!"
                /\ UNCHANGED <<dataset, labelInput>>
           ELSE LET currentFeatures ==
                        IF Len(featureHistory) = 0 THEN zeros
                        ELSE featureHistory[Len(featureHistory)]
                    row   == datasetRow(label, currentFeatures)
                    base  == IF dataset = "" THEN DatasetHeader ELSE dataset
                    saved == base \o row \o "\n"
                    sampleCount == splitLength(saved, "\n") - 2
                IN  /\ dataset' = saved
                    /\ alertText' = "Sample saved! Total samples: "
                                        \o NatString(sampleCount)
                    /\ labelInput' = ""
        /\ uncaught' = Null
        /\ UNCHANGED <<lastFace, lastPose, featureHistory, detectionState,
                       transcript, lastDetection, lastDetectionTime, now,
                       featuresPre, nmfText, transcriptLog, loops>>

\* saveDataset()
SaveDataset ==
    LET label == trim(labelInput)
    IN  /\ IF label = ""
           THEN /\ alertText' = "Please enter a label first!"
                /\ UNCHANGED <<dataset, labelInput>>
           ELSE IF Len(featureHistory) = 0
           THEN /\ alertText' =
                     "No features detected yet! Please wait for camera to start."
                /\ UNCHANGED <<dataset, labelInput>>
           ELSE LET currentFeatures == featureHistory[Len(featureHistory)]
                    row   == datasetRow(label, currentFeatures)
                    base  == IF dataset = "" THEN DatasetHeader ELSE dataset
                    saved == base \o row \o "\n"
                    sampleCount == splitLength(saved, "\n") - 2
                IN  /\ dataset' = saved
                    /\ alertText' = "Sample saved! Total samples: "
                                        \o NatString(sampleCount)
                    /\ labelInput' = ""
        /\ uncaught' = Null
        /\ UNCHANGED <<lastFace, lastPose, featureHistory, detectionState,
                       transcript, lastDetection, lastDetectionTime, now,
                       featuresPre, nmfText, transcriptLog, loops>>

Next ==
    \/ \E res \in FaceInputs, d \in Deltas : FaceResults(res, d)
    \/ \E d \in Deltas : PoseResults(Null, d)
    \/ \E ok \in BOOLEAN : ClearTranscript(ok)

\* Both streams deliver, the pose stream with and without a pose; time passes.
Spec == Init /\ [][Next]_vars

\* Every landmark set on both streams, all within the same millisecond: the
\* hysteresis flags do not read the clock.
NextClassify ==
    \/ \E res \in FaceInputs : FaceResults(res, 0)
    \/ \E res \in PoseInputs : PoseResults(res, 0)
    \/ \E ok \in BOOLEAN : ClearTranscript(ok)

SpecClassify == Init /\ [][NextClassify]_vars

\* The signer of the long run: one frame every 3 ticks, the expression changed
\* after every SMOOTHING_WINDOW frames.
FillFace(clock) ==
    IF ((clock \div (3 * TickMs)) \div SMOOTHING_WINDOW) % 2 = 0
    THEN FaceRight ELSE FaceLeft

\* The long run is followed for MaxFillTicks steps of the clock.
MaxFillTicks == 330

\* faceMesh.onResults in the long run
FillResults ==
    /\ now + 3 * TickMs <= MaxFillTicks * TickMs
    /\ now' = now + 3 * TickMs
    /\ lastFace' = FillFace(now')
    /\ UNCHANGED <<lastPose, labelInput, dataset, alertText, transcriptLog,
                   loops>>
    /\ Pipeline(FillFace(now'), lastPose, now')

\* The long run alone: more than MaxTranscript changes of the text, each
\* more than DwellMs after the one before.
NextFill == FillResults

SpecFill == Init /\ [][NextFill]_vars

\* The long run, with the user clearing the transcript at any time.
NextFillClear ==
    \/ FillResults
    \/ \E ok \in BOOLEAN : ClearTranscript(ok)

SpecFillClear == Init /\ [][NextFillClear]_vars

\* A run in which every callback pushes a present vector: the face stream
\* always delivers a face, the pose stream starts once a face is known, and
\* one tick passes between callbacks.
NextSmooth ==
    \/ \E res \in FaceInputs \ {Null} : FaceResults(res, TickMs)
    \/ lastFace # Null /\ \E res \in PoseInputs : PoseResults(res, TickMs)

SpecSmooth == Init /\ [][NextSmooth]_vars

\* The scaled faces are followed for MaxScaleTicks callbacks.
MaxScaleTicks == 3

\* The face stream delivering a far face at any scale.
NextScale ==
    /\ now < MaxScaleTicks * TickMs
    /\ \E res \in ScaleInputs : FaceResults(res, TickMs)

SpecScale == Init /\ [][NextScale]_vars

\* Ill-formed sets are followed for MaxOddTicks callbacks.
MaxOddTicks == 4

\* Both streams delivering well-formed and ill-formed sets.
NextOdd ==
    /\ now < MaxOddTicks * TickMs
    /\ \/ \E res \in {Null, FaceRight} \cup MalformedFaces :
              FaceResults(res, TickMs)
       \/ \E res \in PoseInputs \cup OddPoses : PoseResults(res, TickMs)

SpecOdd == Init /\ [][NextOdd]_vars

\* What the user may type as a label.
LabelTexts == {"", "  ", "surprise", " nod ", "yes,no"}

\* The dataset runs are followed for MaxSaveTicks callbacks and MaxSaves rows.
MaxSaveTicks == 3

MaxSaves == 2

\* The face stream, and the user typing labels and saving samples.
NextDataset ==
    \/ /\ now < MaxSaveTicks * TickMs
       /\ \E res \in FaceInputs : FaceResults(res, TickMs)
    \/ \E text \in LabelTexts : TypeLabel(text)
    \/ /\ splitLength(dataset, "\n") - 2 < MaxSaves
       /\ SaveDataset

SpecDataset == Init /\ [][NextDataset]_vars

\* Smoothed vectors at rest but for the roll, which is beyond either enter
\* threshold, in either dead zone or level, and the gaze likewise.
SwingRolls == {-12000000, -9000000, 0, 9000000, 12000000}

SwingGazes == {-25000, -15000, 0, 15000, 25000}

SwingVectors ==
    {[extracted[FaceNeutral, Null] EXCEPT !.roll = r, !.gazeMetric = g] :
        r \in SwingRolls, g \in SwingGazes}

\* drawResults(lastFace, lastPose, features), run d ms after the previous
\* event: the features and the text of mapToText(features) are shown.
drawResults(features, d) ==
    LET m == mapToText(detectionState, transcript, lastDetection,
                       lastDetectionTime, features, now + d)
    IN  /\ now' = now + d
        /\ featuresPre' = features
        /\ nmfText' = m.result
        /\ detectionState' = m.ds
        /\ transcript' = m.transcript
        /\ lastDetection' = m.lastDetection
        /\ lastDetectionTime' = m.lastDetectionTime
        /\ uncaught' = Null
        /\ UNCHANGED <<lastFace, lastPose, featureHistory, labelInput,
                       dataset, alertText, transcriptLog, loops>>

\* The swings of roll and gaze are followed for MaxSwingCalls calls.
MaxSwingCalls == 3

\* mapToText on any sequence of the swing vectors, each call more than
\* DwellMs after the one before.
NextSwing ==
    /\ now < MaxSwingCalls * 3 * TickMs
    /\ \E f \in SwingVectors : drawResults(f, 3 * TickMs)

SpecSwing == Init /\ [][NextSwing]_vars

---------------------------------------------------------------------------
(* The detection loop: async function loop() and the 'playing' listener    *)
(* that starts it.  A call of loop() under way is at "face" while it       *)
(* awaits faceMesh.send, at "pose" while it awaits pose.send, and at "raf" *)
(* once it has asked for the animation frame that calls loop() again;      *)
(* caught tells whether a rejection would still reach the .catch() that    *)
(* the listener put on the promise of its own call.                        *)

\* The sequence seq without its i-th element.
RemoveAt(seq, i) == SubSeq(seq, 1, i - 1) \o SubSeq(seq, i + 1, Len(seq))

\* The message of the error a send may reject with.
SendErrors == {"send failed"}

\* The model follows at most MaxLoops calls of loop() under way together,
\* for MaxLoopTicks callbacks.
MaxLoops == 2

MaxLoopTicks == 4

\* video 'playing': the listener calls loop(), which starts the face send
\* when the video has enough data (ready) and else asks for a frame.
Playing(ready) ==
    /\ Len(loops) < MaxLoops
    /\ loops' = Append(loops, IF ready THEN [pos |-> "face", caught |-> TRUE]
                                       ELSE [pos |-> "raf", caught |-> FALSE])
    /\ UNCHANGED <<lastFace, lastPose, featureHistory, detectionState,
                   transcript, lastDetection, lastDetectionTime, now,
                   featuresPre, nmfText, uncaught, labelInput, dataset,
                   alertText, transcriptLog>>

\* await faceMesh.send(...) of the i-th loop completing: the face callback
\* has run on its result, and the loop goes on to pose.send.
FaceSent(i, res) ==
    /\ loops[i].pos = "face"
    /\ onFaceResults(res, TickMs)
    /\ loops' = [loops EXCEPT ![i].pos = "pose"]

\* await pose.send(...) of the i-th loop completing: the pose callback has
\* run on its result, and the loop asks for the next animation frame.
PoseSent(i, res) ==
    /\ loops[i].pos = "pose"
    /\ onPoseResults(res, TickMs)
    /\ loops' = [loops EXCEPT ![i] = [pos |-> "raf", caught |-> FALSE]]

\* The animation frame the i-th loop asked for: loop() again.
Frame(i, ready) ==
    /\ loops[i].pos = "raf"
    /\ loops' = IF ready THEN [loops EXCEPT ![i].pos = "face"] ELSE loops
    /\ UNCHANGED <<lastFace, lastPose, featureHistory, detectionState,
                   transcript, lastDetection, lastDetectionTime, now,
                   featuresPre, nmfText, uncaught, labelInput, dataset,
                   alertText, transcriptLog>>

\* A send of the i-th loop rejecting with msg: the loop ends, and the
\* listener's .catch() shows the error if the call is the listener's own.
SendRejects(i, msg) ==
    /\ loops[i].pos \in {"face", "pose"}
    /\ loops' = RemoveAt(loops, i)
    /\ IF loops[i].caught
       THEN /\ nmfText' = "Detection Error: " \o msg
            /\ uncaught' = Null
       ELSE /\ uncaught' = [error |-> msg]
            /\ UNCHANGED nmfText
    /\ UNCHANGED <<lastFace, lastPose, featureHistory, detectionState,
                   transcript, lastDetection, lastDetectionTime, now,
                   featuresPre, labelInput, dataset, alertText,
                   transcriptLog>>

\* The video starting to play any number of times, and the loops it starts
\* running side by side.
NextLoop ==
    /\ now < MaxLoopTicks * TickMs
    /\ \/ \E ready \in BOOLEAN : Playing(ready)
       \/ \E i \in 1..Len(loops), res \in {Null, FaceRight} : FaceSent(i, res)
       \/ \E i \in 1..Len(loops), res \in PoseInputs : PoseSent(i, res)
       \/ \E i \in 1..Len(loops), ready \in BOOLEAN : Frame(i, ready)
       \/ \E i \in 1..Len(loops), msg \in SendErrors : SendRejects(i, msg)

SpecLoop == Init /\ [][NextLoop]_vars

---------------------------------------------------------------------------
\* The response of the flags is followed for MaxResponseTicks callbacks.
MaxResponseTicks == 6

\* A face in every frame, the pose stream delivering a lean either way or
\* no pose.
NextResponse ==
    /\ now < MaxResponseTicks * TickMs
    /\ \/ \E res \in FaceInputs \ {Null} : FaceResults(res, TickMs)
       \/ lastFace # Null /\ \E res \in PoseInputs \cup {PoseBack} :
              PoseResults(res, TickMs)

SpecResponse == Init /\ [][NextResponse]_vars

\* The steady delivery is followed for MaxLiveTicks steps of the clock.
MaxLiveTicks == 8

\* Both streams deliver for as long as the clock of the model runs: loop()
\* sends a frame to both detectors on every animation frame.
NextLive ==
    \E d \in Deltas :
        /\ now + d <= MaxLiveTicks * TickMs
        /\ \/ \E res \in FaceInputs : FaceResults(res, d)
           \/ \E res \in PoseInputs : PoseResults(res, d)

SpecLive == Init /\ [][NextLive]_vars /\ WF_vars(NextLive)

\* The surprise scenario is followed for MaxScenarioTicks callbacks.
MaxScenarioTicks == 4

\* Face callbacks on a surprised face, a face at rest, a tilted face or no
\* face, and clearing the transcript.
NextScenario ==
    /\ now < MaxScenarioTicks * TickMs
    /\ \/ \E res \in {Null, FaceLeft} \cup ScenarioFaces :
              FaceResults(res, TickMs)
       \/ \E ok \in BOOLEAN : ClearTranscript(ok)

SpecScenario == Init /\ [][NextScenario]_vars

\* Coincident landmarks are followed for MaxGuardTicks callbacks.
MaxGuardTicks == 5

\* Both streams, the face stream delivering sets with coincident landmarks
\* among the others.
NextGuard ==
    /\ now < MaxGuardTicks * TickMs
    /\ \/ \E res \in {Null, FaceRight} \cup CoincidentFaces :
              FaceResults(res, TickMs)
       \/ \E res \in PoseInputs : PoseResults(res, TickMs)

SpecGuard == Init /\ [][NextGuard]_vars

\* The interleavings are followed for MaxJoinTicks callbacks.
MaxJoinTicks == 7

\* The two streams in any interleaving, each delivering a landmark set or
\* nothing, one tick between callbacks.
NextJoin ==
    /\ now < MaxJoinTicks * TickMs
    /\ \/ \E res \in FaceInputs : FaceResults(res, TickMs)
       \/ \E res \in PoseInputs : PoseResults(res, TickMs)

SpecJoin == Init /\ [][NextJoin]_vars

---------------------------------------------------------------------------
(* What the claims speak of: each label's governing value and thresholds.  *)

\* The feature value that governs label l in the vector f.
Governing(l, f) ==
    CASE l = "eyesClosed"    -> f.eyeRatio
      [] l = "mouthOpen"     -> f.mouthOpen
      [] l = "browsRaised"   -> f.browRatio
      [] l = "headTiltRight" -> f.roll
      [] l = "headTiltLeft"  -> f.roll
      [] l = "headNod"       -> f.nod
      [] l = "bodyLean"      -> Abs(f.torsoLean)
      [] l = "browFurrow"    -> f.browAsymmetry
      [] l = "smiling"       -> f.smileMetric
      [] l = "gazingLeft"    -> f.gazeMetric
      [] l = "gazingRight"   -> f.gazeMetric

\* The labels that switch ON below their enter threshold.
LowTriggers == {"eyesClosed", "headTiltLeft", "gazingLeft"}

EnterOf(l) ==
    CASE l = "eyesClosed"    -> EyesClosedEnter
      [] l = "mouthOpen"     -> MouthOpenEnter
      [] l = "browsRaised"   -> BrowsRaisedEnter
      [] l = "headTiltRight" -> TiltRightEnter
      [] l = "headTiltLeft"  -> TiltLeftEnter
      [] l = "headNod"       -> HeadNodEnter
      [] l = "bodyLean"      -> BodyLeanEnter
      [] l = "browFurrow"    -> BrowFurrowEnter
      [] l = "smiling"       -> SmilingEnter
      [] l = "gazingLeft"    -> GazeLeftEnter
      [] l = "gazingRight"   -> GazeRightEnter

ExitOf(l) ==
    CASE l = "eyesClosed"    -> EyesClosedExit
      [] l = "mouthOpen"     -> MouthOpenExit
      [] l = "browsRaised"   -> BrowsRaisedExit
      [] l = "headTiltRight" -> TiltRightExit
      [] l = "headTiltLeft"  -> TiltLeftExit
      [] l = "headNod"       -> HeadNodExit
      [] l = "bodyLean"      -> BodyLeanExit
      [] l = "browFurrow"    -> BrowFurrowExit
      [] l = "smiling"       -> SmilingExit
      [] l = "gazingLeft"    -> GazeLeftExit
      [] l = "gazingRight"   -> GazeRightExit

\* f's value for l is past l's enter threshold / past its exit threshold.
Enters(l, f) ==
    IF l \in LowTriggers THEN Governing(l, f) < EnterOf(l)
                         ELSE Governing(l, f) > EnterOf(l)

Exits(l, f) ==
    IF l \in LowTriggers THEN Governing(l, f) > ExitOf(l)
                         ELSE Governing(l, f) < ExitOf(l)

\* f's value for l lies strictly between l's exit and enter thresholds.
InDeadZone(l, f) ==
    IF l \in LowTriggers
    THEN EnterOf(l) < Governing(l, f) /\ Governing(l, f) < ExitOf(l)
    ELSE ExitOf(l) < Governing(l, f) /\ Governing(l, f) < EnterOf(l)

\* The descriptions in the order of the display text.
LabelOrder == <<"eyesClosed", "mouthOpen", "browsRaised", "headTiltRight",
                "headTiltLeft", "headNod", "bodyLean", "browFurrow",
                "smiling", "gazingLeft", "gazingRight">>

Description(l) ==
    CASE l = "eyesClosed"    -> "eyes closed/blink"
      [] l = "mouthOpen"     -> "mouth open (maybe surprise/talking)"
      [] l = "browsRaised"   -> "eyebrows raised (surprise/ask)"
      [] l = "headTiltRight" -> "head tilted right"
      [] l = "headTiltLeft"  -> "head tilted left"
      [] l = "headNod"       -> "head down / nod"
      [] l = "bodyLean"      -> "body leaning"
      [] l = "browFurrow"    -> "brow furrow (concern)"
      [] l = "smiling"       -> "smiling"
      [] l = "gazingLeft"    -> "looking left"
      [] l = "gazingRight"   -> "looking right"

\* The display text of a set of labels: their descriptions in LabelOrder,
\* joined by ", ".
RECURSIVE TextFrom(_, _)
TextFrom(i, on) ==
    IF i > Len(LabelOrder) THEN ""
    ELSE LET rest == TextFrom(i + 1, on)
         IN  IF LabelOrder[i] \notin on THEN rest
             ELSE IF rest = "" THEN Description(LabelOrder[i])
             ELSE Description(LabelOrder[i]) \o ", " \o rest

TextOf(on) == IF on = {} THEN "neutral" ELSE TextFrom(1, on)

\* The labels whose flags are ON.
ActiveLabels == {l \in Labels : detectionState[l]}

---------------------------------------------------------------------------
(* C1  Dead zone.  In every step that classifies a vector whose governing  *)
(* value for a label lies strictly between that label's exit and enter     *)
(* thresholds, the label's flag is left as it was: ON stays ON, OFF stays  *)
(* OFF.  (featuresPre' is the vector the step classified; a step that      *)
(* classifies nothing changes no flag.)                                    *)
DeadZoneHolds ==
    [][ featuresPre' # Null =>
          \A l \in Labels :
              InDeadZone(l, featuresPre') => detectionState'[l] = detectionState[l]
      ]_vars

\* A call inside the dead zone of smiling has left that flag ON, and the same
\* call, inside the dead zone of mouthOpen, has left that flag OFF.
DeadZoneWitness ==
    /\ featuresPre # Null
    /\ InDeadZone("smiling", featuresPre) /\ detectionState.smiling
    /\ InDeadZone("mouthOpen", featuresPre) /\ ~detectionState.mouthOpen

(* C2  Hysteresis transitions.  After a call on a present vector a flag    *)
(* that was OFF is ON if the value was past the enter threshold, and a     *)
(* flag that was ON is OFF if the value was past the exit threshold (for   *)
(* eyesClosed, tilt-left and gaze-left the thresholds are lower bounds).   *)
HysteresisTransitions ==
    [][ featuresPre' # Null =>
          \A l \in Labels :
              /\ (~detectionState[l] /\ Enters(l, featuresPre')) => detectionState'[l]
              /\ (detectionState[l] /\ Exits(l, featuresPre')) => ~detectionState'[l]
      ]_vars

\* A call has switched headNod ON and headTiltLeft OFF: the buffer still
\* holds a vector below headNod's enter threshold and one past tilt-left's.
HysteresisWitness ==
    /\ featuresPre # Null
    /\ detectionState.headNod /\ Enters("headNod", featuresPre)
    /\ ~detectionState.headTiltLeft /\ Exits("headTiltLeft", featuresPre)
    /\ \E i \in 1..Len(featureHistory) :
           /\ ~Enters("headNod", featureHistory[i])
           /\ Enters("headTiltLeft", featureHistory[i])

(* C3  Mutual exclusion.  headTiltLeft and headTiltRight are never both    *)
(* ON, gazingLeft and gazingRight are never both ON, and no displayed text *)
(* holds both descriptions of a pair.                                      *)
TextsWithBoth(a, b) ==
    {TextOf(on \cup {a, b}) : on \in SUBSET (Labels \ {a, b})}

BothTilts == TextsWithBoth("headTiltRight", "headTiltLeft")

BothGazes == TextsWithBoth("gazingLeft", "gazingRight")

TextEqualsFlags ==
    featuresPre # Null =>
        /\ nmfText = TextOf(ActiveLabels)
        /\ (nmfText = "neutral") <=> (ActiveLabels = {})

\* A text of several descriptions, one of them from a direction pair.
TextEqualsFlagsWitness ==
    /\ featuresPre # Null
    /\ Cardinality(ActiveLabels) >= 3
    /\ detectionState.headTiltRight
    /\ nmfText = TextOf(ActiveLabels)

---------------------------------------------------------------------------
\* A step in which mapToText recorded an entry (it alone sets
\* lastDetectionTime, to a later time).
Recorded == lastDetectionTime' # lastDetectionTime

\* A callback ran (each runs later than the event before it).
CallbackStep == now' # now

(* C5  Absent input.  A face or pose callback that runs while the latest   *)
(* face set is absent shows the empty text and leaves the eleven flags,    *)
(* the transcript, lastDetection and lastDetectionTime as they were.       *)
AbsentStable ==
    [][ (CallbackStep /\ lastFace' = Null) =>
          /\ nmfText' = ""
          /\ UNCHANGED <<detectionState, transcript, lastDetection,
                         lastDetectionTime>>
      ]_vars

\* An absent callback has run with flags ON, an entry recorded and the dwell
\* time over: a classification at this moment could have recorded again.
AbsentStableWitness ==
    /\ lastFace = Null /\ nmfText = "" /\ featuresPre = Null
    /\ Len(transcript) > 0 /\ ActiveLabels # {}
    /\ now - lastDetectionTime > DwellMs

(* C6  Transcript gate.  A call on a present vector at time now appends    *)
(* exactly one entry, with the text it returns, if and only if that text   *)
(* differs from lastDetection and now - lastDetectionTime > 500; then      *)
(* lastDetection and lastDetectionTime become the text and now; otherwise  *)
(* the transcript, lastDetection and lastDetectionTime stay as they were.  *)
TranscriptGate ==
    [][ (CallbackStep /\ featuresPre' # Null) =>
          IF nmfText' # lastDetection /\ now' - lastDetectionTime > 500
          THEN /\ Len(transcript') = Len(transcript) + 1
               /\ SubSeq(transcript', 1, Len(transcript)) = transcript
               /\ transcript'[Len(transcript')].text = nmfText'
               /\ lastDetection' = nmfText'
               /\ lastDetectionTime' = now'
          ELSE UNCHANGED <<transcript, lastDetection, lastDetectionTime>>
      ]_vars

\* Two entries are recorded, and the last call showed a text that is not the
\* recorded one without recording it: the dwell time was not over.
TranscriptGateWitness ==
    /\ Len(transcript) >= 2
    /\ featuresPre # Null
    /\ nmfText # lastDetection
    /\ now - lastDetectionTime = DwellMs

(* C7  Sustained dwell, as claimed: a text that a call records is the text *)
(* the call before it showed too (a text first seen in a call is not       *)
(* recorded by that call).                                                 *)
SustainedDwell ==
    [][ (Recorded /\ featuresPre # Null) => nmfText' = nmfText ]_vars

(* C8  Debounce, as claimed: two records are more than 500 ms apart, and a *)
(* change of the text more than 500 ms after the change before it records  *)
(* an entry.                                                               *)
TextChange ==
    /\ CallbackStep
    /\ featuresPre # Null /\ featuresPre' # Null
    /\ nmfText' # nmfText

TranscriptBound ==
    /\ [](Len(transcript) <= 50)
    /\ [][ (Recorded /\ Len(transcript) = 50) =>
              /\ Len(transcript') = 50
              /\ SubSeq(transcript', 1, 49) = SubSeq(transcript, 2, 50)
              /\ transcript'[50].text = nmfText'
         ]_vars

\* 50 entries, the one recorded first (in the first second) no longer among
\* them: in the long run nothing but the shift removes an entry.
TranscriptBoundWitness ==
    /\ Len(transcript) = 50
    /\ transcript[1].timestamp > 0

(* C10  No duplicates.  No two adjacent entries hold the same text, and    *)
(* while the transcript is not empty lastDetection is the text of its      *)
(* newest entry.                                                           *)
NoDuplicates ==
    /\ \A i \in 1..(Len(transcript) - 1) :
           transcript[i].text # transcript[i + 1].text
    /\ Len(transcript) > 0 => lastDetection = transcript[Len(transcript)].text

\* The transcript holds 50 entries, the oldest ones recorded early in the run
\* are gone, and lastDetection is the text of the newest entry.
NoDuplicatesWitness ==
    /\ Len(transcript) = 50
    /\ transcript[1].timestamp > 10
    /\ lastDetection = transcript[50].text

---------------------------------------------------------------------------
\* The smaller of two numbers.
Min(a, b) == IF a < b THEN a ELSE b

\* v is the arithmetic mean of the vectors of hist, field by field, to the
\* fixed-point unit: count * v is the sum, less what the division dropped.
IsMeanOf(v, hist) ==
    \A name \in FeatureNames :
        LET sum == SumField(hist, name)
        IN  /\ Abs(sum - Len(hist) * v[name]) < Len(hist)
            /\ Abs(Len(hist) * v[name]) <= Abs(sum)

\* The callbacks run so far in a run of SpecSmooth, each a push of a present
\* vector.
PushCount == now \div TickMs

(* C11  Smoothing.  After n pushes of present vectors the buffer holds      *)
(* min(n, 5) vectors; each push leaves in the buffer the last min(n, 5)    *)
(* of the vectors that were there followed by the vector pushed, in that   *)
(* order, and returns the field-wise arithmetic mean of exactly those.     *)
SmoothingCorrect ==
    /\ [](Len(featureHistory) = Min(PushCount, 5))
    /\ [][ CallbackStep =>
              LET raw == extracted[lastFace', lastPose']
                  all == Append(featureHistory, raw)
                  n   == Min(Len(all), 5)
              IN  /\ featureHistory' = SubSeq(all, Len(all) - n + 1, Len(all))
                  /\ IsMeanOf(featuresPre', featureHistory')
         ]_vars

\* The sixth push: the first vector pushed has left the buffer, the buffer
\* mixes vectors with and without a pose, and the mean is none of them.
SmoothingWitness ==
    /\ PushCount = 6
    /\ Len(featureHistory) = 5
    /\ featureHistory[1].torsoLean # featureHistory[5].torsoLean
    /\ featureHistory[1].roll # featureHistory[5].roll
    /\ \A i \in 1..5 : featuresPre # featureHistory[i]

(* C12  Absent pushes.  A callback whose extraction yields no vector       *)
(* leaves the buffer exactly as it was, however many such callbacks run in *)
(* a row; the first present vector after them is averaged with the vectors *)
(* buffered before them.                                                   *)
AbsentPushNoOp ==
    [][ CallbackStep =>
          LET raw == extracted[lastFace', lastPose']
          IN  /\ raw = Null => featureHistory' = featureHistory
              /\ (raw # Null /\ featuresPre = Null /\ featureHistory # <<>>) =>
                     /\ Len(featureHistory') >= 2
                     /\ featureHistory'[Len(featureHistory') - 1]
                            = featureHistory[Len(featureHistory)]
                     /\ IsMeanOf(featuresPre', featureHistory')
      ]_vars

\* A callback without a face has run on a buffer of several vectors, and
\* they are all still there.
AbsentPushWitness ==
    /\ lastFace = Null /\ featuresPre = Null
    /\ Len(featureHistory) = 5
    /\ featureHistory[1] # featureHistory[5]

(* C13  Smoother output, as claimed: a callback shows no vector only if    *)
(* the buffer is empty; whenever the buffer holds a vector, the callback,  *)
(* also one that pushed an absent vector, shows the mean of the buffer.    *)
SmootherPresence ==
    [][ CallbackStep =>
          /\ featuresPre' = Null => featureHistory' = <<>>
          /\ featureHistory' # <<>> =>
                 (featuresPre' # Null /\ IsMeanOf(featuresPre', featureHistory'))
      ]_vars

(* C13  Smoother output, amended: a callback shows no vector exactly when  *)
(* the vector it pushed is absent, whether or not the buffer holds         *)
(* vectors; a push of a present vector shows the mean of the buffer as the *)
(* push left it.                                                           *)
SmootherPresenceAmended ==
    [][ CallbackStep =>
          LET raw == extracted[lastFace', lastPose']
          IN  /\ featuresPre' = Null <=> raw = Null
              /\ raw # Null =>
                     (featureHistory' # <<>> /\ IsMeanOf(featuresPre', featureHistory'))
      ]_vars

\* An absent push was answered with no vector while the buffer held some,
\* taken while flags were ON.
SmootherPresenceWitness ==
    /\ featuresPre = Null /\ nmfText = ""
    /\ featureHistory # <<>>
    /\ ActiveLabels # {}
    /\ uncaught = Null

(* C14  Latest-known join.  In any interleaving, a callback replaces the   *)
(* value of one stream and keeps the other; the vector it extracts is that *)
(* of the two values it then holds, and it pushes and shows it in the same *)
(* callback; a callback that runs while no face is known changes neither   *)
(* the buffer, nor the flags, nor the transcript.                          *)
LatestKnownJoin ==
    [][ CallbackStep =>
          LET raw == extracted[lastFace', lastPose']
          IN  /\ lastFace' = lastFace \/ lastPose' = lastPose
              /\ raw # Null =>
                     /\ featureHistory'[Len(featureHistory')] = raw
                     /\ IsMeanOf(featuresPre', featureHistory')
              /\ raw = Null => (featuresPre' = Null /\ nmfText' = "")
              /\ (lastFace = Null /\ lastFace' = Null) =>
                     UNCHANGED <<featureHistory, detectionState, transcript,
                                 lastDetection, lastDetectionTime>>
      ]_vars

\* Three callbacks, three pushes: a face callback before any pose, a pose
\* callback that pushed the same face with the new pose, and a face callback
\* that pushed a new face with that pose.
LatestKnownJoinWitness ==
    /\ now = 3 * TickMs
    /\ Len(featureHistory) = 3
    /\ featureHistory[1].torsoLean = 0
    /\ featureHistory[2].torsoLean # 0
    /\ featureHistory[2].roll = featureHistory[1].roll
    /\ featureHistory[3].torsoLean = featureHistory[2].torsoLean
    /\ featureHistory[3].roll # featureHistory[2].roll

\* A pose was delivered before any face, and nothing was pushed.
PoseFirst ==
    /\ lastFace = Null /\ lastPose # Null
    /\ featureHistory = <<>> /\ now = TickMs

---------------------------------------------------------------------------
\* The labels ON after the pipeline has run once, from the initial state, on
\* the face S.
LabelsFromInit(S) ==
    LET s == smoothFeatures(<<>>, extracted[S, Null])
    IN  {l \in Labels : classify(InitialDetectionState, s.result).ds[l]}

(* C15  Scale invariance of the labels, as claimed: the first callback of  *)
(* a run, on the face S scaled by k, switches ON the labels that a first   *)
(* callback on S itself switches ON.                                       *)
ScaleInvariantLabels ==
    \A S \in ScaleBases, k \in Scales :
        (now = TickMs /\ lastFace = ScaleSet(S, k)) =>
            ActiveLabels = LabelsFromInit(S)

\* The features extractFeatures divides by the inter-ocular distance.
RatioNames == {"eyeRatio", "browRatio", "mouthOpen", "browAsymmetry",
               "smileMetric", "gazeMetric"}

\* The vector pushed last.
LastRaw == featureHistory[Len(featureHistory)]

(* C16  Scale invariance of the ratios, as claimed: the ratio features     *)
(* extracted from S scaled by k are those extracted from S to within 1e-6. *)
RatioScaleInvariant ==
    \A S \in ScaleBases, k \in Scales :
        (lastFace = ScaleSet(S, k) /\ featureHistory # <<>>) =>
            \A name \in RatioNames :
                Abs(LastRaw[name] - extracted[S, Null][name]) <= 1

(* C16  Scale invariance of the ratios, amended: a ratio feature of S      *)
(* scaled by k differs from that of S by the feature times 1e-6 * (k - 1)  *)
(* over the guarded inter-ocular distance of the scaled set (to the        *)
(* fixed-point unit of each quotient), and by no more; roll, an angle,     *)
(* is the same.                                                            *)
RatioScaleDrift ==
    \A S \in ScaleBases, k \in Scales :
        (lastFace = ScaleSet(S, k) /\ featureHistory # <<>>) =>
            /\ \A name \in RatioNames :
                   LET fS == extracted[S, Null][name]
                   IN  Abs(LastRaw[name] - fS)
                           <= (Abs(fS) * (k - 1)) \div interOcular(lastFace.lm) + 2
            /\ LastRaw.roll = extracted[S, Null].roll

\* The far face seen ten times nearer: its smile ratio is more than 1e-5
\* above that of the far face.
RatioScaleWitness ==
    /\ lastFace = ScaleSet(FaceFar, 10)
    /\ featureHistory # <<>>
    /\ LastRaw.smileMetric - extracted[FaceFar, Null].smileMetric > 10

---------------------------------------------------------------------------
(* C17  Malformed face sets, as claimed: a callback whose latest face set  *)
(* has the wrong length or lacks an anchor ends without an error, shows no *)
(* vector and the empty text, and leaves the buffer, the flags and the     *)
(* transcript as they were.                                                *)
MalformedAsAbsent ==
    [][ (CallbackStep /\ lastFace' \in MalformedFaces) =>
          /\ uncaught' = Null
          /\ featuresPre' = Null /\ nmfText' = ""
          /\ UNCHANGED <<featureHistory, detectionState, transcript>>
      ]_vars

\* The torso lean the claim describes for a pose set.
ClaimedTorsoLean(pose) ==
    IF /\ pose # Null
       /\ pose.length > 0
       /\ \A i \in {11, 12, 23, 24} : Has(pose, i)
    THEN ((pose.lm[11].y + pose.lm[12].y) * 1000) \div 2
         - ((pose.lm[23].y + pose.lm[24].y) * 1000) \div 2
    ELSE 0

(* C18  torsoLean, as claimed: a callback on a well-formed face ends       *)
(* without an error whatever the pose set, and the vector it pushes has    *)
(* torsoLean = shoulder-midpoint y - hip-midpoint y if the pose set is     *)
(* present with landmarks 11, 12, 23 and 24, and 0 otherwise.              *)
TorsoLeanDefined ==
    [][ (CallbackStep /\ lastFace' = FaceRight) =>
          /\ uncaught' = Null
          /\ featureHistory' # <<>>
          /\ LastRaw'.torsoLean = ClaimedTorsoLean(lastPose')
      ]_vars

---------------------------------------------------------------------------
\* A step in which saveDataset stored a row.
Saved == dataset' # dataset

\* A step in which saveDataset answered with a new message.
Answered == alertText' # alertText

(* C19  Dataset snapshot, as claimed: the row a save stores holds the      *)
(* trimmed label and the nine values of the smoothed vector, the mean over *)
(* the smoothing buffer.                                                   *)
SnapshotIsSmoothed ==
    [][ Saved =>
          dataset' = (IF dataset = "" THEN DatasetHeader ELSE dataset)
                     \o datasetRow(trim(labelInput), avgFeatures(featureHistory))
                     \o "\n"
      ]_vars

(* C20  Nothing to save, as claimed: a save requested while the buffer is  *)
(* empty stores nothing, answers that no features were detected yet, and   *)
(* leaves the buffer, the flags and the transcript as they were.           *)
NothingToSave ==
    [][ ((Saved \/ Answered) /\ featureHistory = <<>>) =>
          /\ dataset' = dataset
          /\ alertText' = "No features detected yet! Please wait for camera to start."
          /\ UNCHANGED <<featureHistory, detectionState, transcript>>
      ]_vars

(* C20  Nothing to save, amended: a save requested while the buffer is     *)
(* empty stores nothing and leaves the buffer, the flags and the           *)
(* transcript as they were; it answers that no features were detected yet  *)
(* if the label is not blank, and asks for a label if it is.               *)
NothingToSaveAmended ==
    [][ ((Saved \/ Answered) /\ featureHistory = <<>>) =>
          /\ dataset' = dataset
          /\ alertText' =
                 IF trim(labelInput) = ""
                 THEN "Please enter a label first!"
                 ELSE "No features detected yet! Please wait for camera to start."
          /\ UNCHANGED <<featureHistory, detectionState, transcript, labelInput>>
      ]_vars

\* A labelled save was declined before anything was pushed: nothing is
\* stored, not even the header, and the label is still in the field.
NothingToSaveWitness ==
    /\ featureHistory = <<>>
    /\ alertText = "No features detected yet! Please wait for camera to start."
    /\ dataset = ""
    /\ trim(labelInput) = "nod"

---------------------------------------------------------------------------
\* The text of a corpus after its header line ("" for an empty corpus).
RowsText(corpus) ==
    IF corpus = "" THEN ""
    ELSE SubSeq(corpus, Len(DatasetHeader) + 1, Len(corpus))

\* The rows a corpus holds: the line ends after the header line.
RowCount(corpus) == splitLength(RowsText(corpus), "\n") - 1

\* The line a save has put at the end of the corpus, without its line end.
NewRow == SubSeq(dataset', Len(RowsText(dataset)) + Len(DatasetHeader) + 1,
                 Len(dataset') - 1)

(* C21  Corpus layout.  From an empty store on, the corpus is empty or is  *)
(* the header line followed by rows; a save that stores keeps the rows     *)
(* stored before, in order, puts exactly one line behind them, writes the  *)
(* header only when the corpus was empty, and reports the number of rows   *)
(* then stored.                                                            *)
CorpusLayout ==
    /\ [](dataset = "" \/ SubSeq(dataset, 1, Len(DatasetHeader)) = DatasetHeader)
    /\ [][ Saved =>
              /\ dataset' = DatasetHeader \o RowsText(dataset) \o NewRow \o "\n"
              /\ splitLength(NewRow, "\n") = 1
              /\ RowCount(dataset') = RowCount(dataset) + 1
              /\ alertText' = "Sample saved! Total samples: "
                                  \o NatString(RowCount(dataset'))
         ]_vars

\* Two rows are stored behind one header, and the count reported is 2.
CorpusLayoutWitness ==
    /\ RowCount(dataset) = 2
    /\ alertText = "Sample saved! Total samples: 2"
    /\ splitLength(dataset, "\n") = 4

(* C22  Fixed columns, as claimed: every row a save stores has as many     *)
(* comma-separated fields as the header, 10, whatever the label.           *)
FixedColumns ==
    [][ Saved =>
          /\ splitLength(NewRow, ",") = splitLength(DatasetHeader, ",")
          /\ splitLength(NewRow, ",") = 10
      ]_vars

---------------------------------------------------------------------------
(* C23  Division guard.  A callback on any present face set, also one      *)
(* whose outer eye corners or whose landmarks all coincide, divides by a   *)
(* positive inter-ocular distance and ends without an error; every value   *)
(* of the vector it pushes and of the mean it shows is a number, for       *)
(* coincident corners the numerator divided by exactly 1e-6; and the mean  *)
(* is taken over a buffer of at least one vector.                          *)
DivisionGuard ==
    [][ (CallbackStep /\ lastFace' # Null) =>
          LET lm == lastFace'.lm
          IN  /\ interOcular(lm) > 0
              /\ uncaught' = Null
              /\ Len(featureHistory') >= 1
              /\ featuresPre' # Null
              /\ \A name \in FeatureNames :
                     LastRaw'[name] \in Int /\ featuresPre'[name] \in Int
              /\ dist(lm[33], lm[263]) = 0 =>
                     /\ LastRaw'.browAsymmetry
                            = Micro * Abs(dist(lm[70], lm[105]) - dist(lm[300], lm[386]))
                     /\ LastRaw'.mouthOpen = Micro * dist(lm[13], lm[14])
                     /\ LastRaw'.smileMetric = Micro * dist(lm[61], lm[291])
                     /\ LastRaw'.roll = 0
      ]_vars

\* The buffer is full of vectors from sets with coincident eye corners, one
\* of them with a brow asymmetry of 400 (0.0004 over 1e-6), and brow furrow
\* is ON.
DivisionGuardWitness ==
    /\ lastFace \in CoincidentFaces
    /\ Len(featureHistory) = 5
    /\ \A i \in 1..5 : featureHistory[i].eyeRatio = 0 /\ featureHistory[i].roll = 0
    /\ \E i \in 1..5 : featureHistory[i].browAsymmetry = 400 * Micro
    /\ \E i \in 1..5 : featureHistory[i].browAsymmetry = 0
    /\ detectionState.browFurrow

---------------------------------------------------------------------------
(* C24  Surprise scenario.  A step that starts with every flag OFF and     *)
(* classifies a vector with browRatio 0.15 and mouthOpen 0.10 (to 1e-5)    *)
(* in which no other label's enter condition holds leaves exactly          *)
(* browsRaised and mouthOpen ON, and the text it returns is the mouth-open *)
(* description joined to the eyebrows-raised description.                  *)
SurpriseScenario ==
    [][ ( /\ CallbackStep
          /\ detectionState = InitialDetectionState
          /\ featuresPre' # Null
          /\ Abs(featuresPre'.browRatio - 150000) <= 10
          /\ Abs(featuresPre'.mouthOpen - 100000) <= 10
          /\ \A l \in Labels \ {"browsRaised", "mouthOpen"} :
                 ~Enters(l, featuresPre') )
        => /\ {l \in Labels : detectionState'[l]} = {"browsRaised", "mouthOpen"}
           /\ nmfText' = Description("mouthOpen") \o ", " \o Description("browsRaised")
           /\ nmfText' # "neutral"
      ]_vars

\* The first classified vector of a run is the surprised face's, after
\* callbacks without a face.
SurpriseScenarioWitness ==
    /\ lastFace = FaceSurprise
    /\ now = 3 * TickMs
    /\ Len(featureHistory) = 1
    /\ Abs(featuresPre.browRatio - 150000) <= 10
    /\ Abs(featuresPre.mouthOpen - 100000) <= 10
    /\ ActiveLabels = {"browsRaised", "mouthOpen"}
    /\ nmfText = "mouth open (maybe surprise/talking), eyebrows raised (surprise/ask)"

---------------------------------------------------------------------------
(* C25  The transcript display follows the transcript, as claimed: when a  *)
(* landmark callback completes, #transcriptLog shows what                  *)
(* updateTranscriptDisplay() would put there for the transcript as the     *)
(* callback left it.                                                       *)
DisplayFollowsTranscript ==
    [][ CallbackStep => transcriptLog' = updateTranscriptDisplay(transcript') ]_vars

---------------------------------------------------------------------------
(* C26  Eventual recording of a stable label.  While callbacks keep        *)
(* arriving: when the text shown for a classified vector is not            *)
(* lastDetection, then eventually the text shown is lastDetection and the  *)
(* text of the newest entry, unless the face is lost (two callbacks        *)
(* suffice, so the clock of the model must leave room for two), and so a   *)
(* text that stays is the one recorded; a call that classifies more than   *)
(* 500 ms after the previous append leaves its text as lastDetection and   *)
(* in the newest entry; and a call whose text is already lastDetection     *)
(* appends nothing.                                                        *)
StableLabelRecorded ==
    /\ []( ( /\ featuresPre # Null
             /\ nmfText # lastDetection
             /\ now + 2 * TickMs <= MaxLiveTicks * TickMs )
           => <>( \/ /\ nmfText = lastDetection
                     /\ Len(transcript) > 0
                     /\ transcript[Len(transcript)].text = nmfText
                  \/ featuresPre = Null ) )
    /\ [][ ( /\ CallbackStep
             /\ featuresPre' # Null
             /\ now' - lastDetectionTime > DwellMs )
           => /\ lastDetection' = nmfText'
              /\ Len(transcript') > 0
              /\ transcript'[Len(transcript')].text = nmfText'
         ]_vars
    /\ [][ (CallbackStep /\ featuresPre' # Null /\ nmfText' = lastDetection)
           => transcript' = transcript
         ]_vars

\* A second text was recorded two callbacks after it first showed, and has
\* stayed for two callbacks more without another entry.
StableLabelRecordedWitness ==
    /\ featuresPre # Null
    /\ Len(transcript) = 2
    /\ nmfText = lastDetection
    /\ transcript[2].text = nmfText
    /\ transcript[1].text # nmfText
    /\ now - lastDetectionTime = 2 * TickMs
    /\ Len(featureHistory) = SMOOTHING_WINDOW

---------------------------------------------------------------------------
\* Every vector in the buffer hist satisfies label l's enter condition.
AllEnter(l, hist) == \A i \in 1..Len(hist) : Enters(l, hist[i])

\* Every vector in the buffer hist satisfies label l's exit condition.
AllExit(l, hist) == \A i \in 1..Len(hist) : Exits(l, hist[i])

\* The torso leans of the buffer hist all lie beyond the enter threshold on
\* the same side.
SameSideLean(hist) ==
    \/ \A i \in 1..Len(hist) : hist[i].torsoLean > BodyLeanEnter
    \/ \A i \in 1..Len(hist) : hist[i].torsoLean < -BodyLeanEnter

(* C27  Bounded response through the smoother, as claimed: after a         *)
(* callback that makes the fifth of five consecutive pushes, a label whose *)
(* enter condition all five raw vectors satisfy is ON, and a label whose   *)
(* exit condition all five satisfy is OFF, for each of the eleven labels.  *)
BoundedResponse ==
    [][ ( /\ CallbackStep
          /\ lastFace' # Null
          /\ Len(featureHistory') = SMOOTHING_WINDOW )
        => \A l \in Labels :
              /\ AllEnter(l, featureHistory') => detectionState'[l]
              /\ AllExit(l, featureHistory') => ~detectionState'[l]
      ]_vars

(* C27  Bounded response through the smoother, amended: the same for the   *)
(* ten labels other than bodyLean and for the exit of bodyLean; bodyLean   *)
(* is ON after the fifth push when the five raw torso leans are beyond the *)
(* enter threshold all on the same side.                                   *)
BoundedResponseAmended ==
    [][ ( /\ CallbackStep
          /\ lastFace' # Null
          /\ Len(featureHistory') = SMOOTHING_WINDOW )
        => /\ \A l \in Labels \ {"bodyLean"} :
                 /\ AllEnter(l, featureHistory') => detectionState'[l]
                 /\ AllExit(l, featureHistory') => ~detectionState'[l]
           /\ SameSideLean(featureHistory') => detectionState'.bodyLean
           /\ AllExit("bodyLean", featureHistory') => ~detectionState'.bodyLean
      ]_vars

\* Five pushes of one face under a lean to one side, after a first push
\* without a pose, have switched head nod and body lean ON and left the
\* left tilt, whose exit condition all five satisfy, OFF.
BoundedResponseWitness ==
    /\ Len(featureHistory) = SMOOTHING_WINDOW
    /\ now = (SMOOTHING_WINDOW + 1) * TickMs
    /\ SameSideLean(featureHistory)
    /\ detectionState.bodyLean
    /\ AllEnter("headNod", featureHistory)
    /\ detectionState.headNod
    /\ AllExit("headTiltLeft", featureHistory)
    /\ ~detectionState.headTiltLeft

---------------------------------------------------------------------------
\* The values of the vector f that extractFeatures takes from the face set.
FaceFields(f) == [name \in FeatureNames \ {"torsoLean"} |-> f[name]]

(* C28  The smoothing window counts callbacks.  Every face or pose         *)
(* callback that runs while the latest face set is present pushes exactly  *)
(* one vector: the buffer grows by one or, when full, loses its oldest     *)
(* entry, the entries kept stay in order, and the new last entry holds the *)
(* features of the latest face set; a pose callback pushes again the face  *)
(* features of the face set that was there before it.                      *)
WindowCountsCallbacks ==
    [][ (CallbackStep /\ lastFace' # Null) =>
          LET n    == Len(featureHistory)
              n2   == Len(featureHistory')
              drop == n + 1 - n2
          IN  /\ n2 = Min(n + 1, SMOOTHING_WINDOW)
              /\ \A i \in 1..(n2 - 1) : featureHistory'[i] = featureHistory[i + drop]
              /\ LastRaw' = extracted[lastFace', lastPose']
              /\ FaceFields(LastRaw') = FaceFields(extracted[lastFace', Null])
              /\ lastPose' # lastPose =>
                     /\ lastFace' = lastFace
                     /\ FaceFields(LastRaw') = FaceFields(extracted[lastFace, Null])
      ]_vars

\* One face callback and then five pose callbacks, each changing the pose:
\* the five buffered vectors differ from one to the next in the torso lean
\* and all hold the features of the one face set.
WindowCountsCallbacksWitness ==
    /\ lastFace # Null
    /\ now = (SMOOTHING_WINDOW + 1) * TickMs
    /\ Len(featureHistory) = SMOOTHING_WINDOW
    /\ \A i \in 1..SMOOTHING_WINDOW :
           FaceFields(featureHistory[i]) = FaceFields(extracted[lastFace, Null])
    /\ \A i \in 1..(SMOOTHING_WINDOW - 1) :
           featureHistory[i].torsoLean # featureHistory[i + 1].torsoLean

---------------------------------------------------------------------------
\* The labels whose blocks clear the opposite flag on entering.
CrossLabels == {"headTiltRight", "headTiltLeft", "gazingLeft", "gazingRight"}

\* One step of the two-threshold machine of label l, alone, from the flag
\* value on, on the vector f.
Hysteresis(l, on, f) ==
    IF ~on /\ Enters(l, f) THEN TRUE
    ELSE IF on /\ Exits(l, f) THEN FALSE
    ELSE on

(* C29  The clearing of the opposite flag is redundant.  After every call  *)
(* of mapToText each of headTiltRight, headTiltLeft, gazingLeft and        *)
(* gazingRight has the value that its own two-threshold machine, stepped   *)
(* on the classified vector from the flag's value before the call and      *)
(* without regard to any other flag, gives it.                             *)
CrossClearRedundant ==
    [][ (CallbackStep /\ featuresPre' # Null) =>
          \A l \in CrossLabels :
              detectionState'[l] = Hysteresis(l, detectionState[l], featuresPre')
      ]_vars

\* A call with the head tilted and the gaze turned to the left was followed
\* by a call with both to the right: each right block entered while the
\* left flag was ON.
CrossClearRedundantWitness ==
    /\ Len(transcript) = 2
    /\ transcript[1].text = "head tilted left, looking left"
    /\ transcript[2].text = "head tilted right, looking right"
    /\ lastDetectionTime = now
    /\ now = 2 * 3 * TickMs
    /\ detectionState.headTiltRight /\ ~detectionState.headTiltLeft
    /\ detectionState.gazingRight /\ ~detectionState.gazingLeft

---------------------------------------------------------------------------
\* The sends awaited at this moment.
SendsInFlight ==
    Cardinality({i \in 1..Len(loops) : loops[i].pos \in {"face", "pose"}})

(* C30  Single detection loop, as claimed: however often 'playing' fires,  *)
(* at most one call chain of loop() is under way and at most one send is   *)
(* awaited at any time.                                                    *)
SingleDetectionLoop ==
    /\ Len(loops) <= 1
    /\ SendsInFlight <= 1

\* Two loops are under way and each awaits a send.
TwoLoopsSending == Len(loops) = 2 /\ SendsInFlight = 2

====
